---------------------------- MODULE Spec2Model ----------------------------
(***************************************************************************)
(* Visual Product Matcher: the ProductMatcher page (its state, the search  *)
(* round trip and the result filter), the ImageUploader that feeds it and  *)
(* the ApiClient call it makes.                                            *)
(*                                                                         *)
(* Numbers that are fractions in the program are kept in fixed point, in   *)
(* hundredths: a cosine similarity of 0.75 is 75, a similarity percentage  *)
(* of 75 (%) is 7500, and a threshold of t is compared as t * Scale.       *)
(***************************************************************************)
EXTENDS Integers, Sequences, FiniteSets, TLC

(***************************************************************************)
(* Values                                                                  *)
(***************************************************************************)
\* JavaScript null (a state that holds no file, no URL, no message).
Null == "null"

\* JavaScript truthiness of a string-or-null value: null and '' are falsy.
Truthy(x) == x \notin {Null, ""}

\* Fixed point: one unit of a program number is Scale hundredths.
Scale == 100

\* s.startsWith(prefix)
StartsWith(s, prefix) ==
  Len(s) >= Len(prefix) /\ SubSeq(s, 1, Len(prefix)) = prefix

\* `x.trim()` of the URL inputs of the model: only "  " holds white space.
Trim(s) == IF s = "  " THEN "" ELSE s

(***************************************************************************)
(* Bounds and input sets                                                   *)
(***************************************************************************)
\* Number of records of the embedding store a search runs against.
MaxStore == 2

\* Cosine similarities (hundredths) the encoder may give a stored record.
SimValues == {-50, 0, 75}

\* Categories of the catalog's records, by position in the catalog.
ProductCategories == <<"Shoes", "Bags">>

CategoryOf(i) == ProductCategories[((i - 1) % Len(ProductCategories)) + 1]

\* Category badges the model clicks in the filter panel.
CategoryNames == {"All", "Shoes", "Bags"}

\* Files the user may pick or drop: name -> MIME type and size in bytes.
FileNames == {"shoe.png", "notes.txt", "huge.png"}

\* The files of the uploader's own specification: every documented format,
\* one image format outside the documented ones, and the files above.
UploaderFiles == FileNames \cup {"photo.jpg", "pic.webp", "anim.gif"}

FileType(f) ==
  CASE f = "notes.txt" -> "text/plain"
    [] f = "photo.jpg" -> "image/jpeg"
    [] f = "pic.webp" -> "image/webp"
    [] f = "anim.gif" -> "image/gif"
    [] OTHER -> "image/png"

\* file.type.startsWith('image/')
StartsWithImage(type) == StartsWith(type, "image/")

MaxFileSize == 10 * 1024 * 1024

\* shoe.png is exactly at the limit, huge.png one byte above it.
FileSize(f) ==
  CASE f = "huge.png" -> MaxFileSize + 1
    [] f = "shoe.png" -> MaxFileSize
    [] OTHER -> 1024 * 1024

\* Text the user may type in the URL box.
GoodUrl == "https://example.com/image.jpg"

UrlInputs == {"", "  ", "not a url", GoodUrl}

\* `new URL(s)` succeeds (does not throw) on s.
IsValidUrl(s) == s = GoodUrl

\* URL.createObjectURL(file)
CreateObjectURL(f) == "blob:" \o f


(***************************************************************************)
(* The result filter of ProductMatcher (useMemo filteredResults)           *)
(***************************************************************************)
\* `product.f` is truthy: the field is there and is not 0.
HasTruthy(product, f) == f \in DOMAIN product /\ product[f] # 0

\* Mutant: product.similarity || product.similarity_percentage || 0.
SimilarityOperandCosineFirst(product) ==
  IF HasTruthy(product, "similarity")
  THEN [unit |-> "cosine", value |-> product.similarity]
  ELSE IF HasTruthy(product, "similarity_percentage")
  THEN [unit |-> "percentage", value |-> product.similarity_percentage]
  ELSE [unit |-> "zero", value |-> 0]

\* Mutant: product.similarity || 0, the field ProductCard reads.
SimilarityOperandCosineOnly(product) ==
  IF HasTruthy(product, "similarity")
  THEN [unit |-> "cosine", value |-> product.similarity]
  ELSE [unit |-> "zero", value |-> 0]

\* Mutant: product.similarity_percentage || product.similarity, no final 0:
\* with both fields missing the value is undefined, and every comparison of
\* it with a threshold is false (here: a value below every threshold).
SimilarityOperandNoDefault(product) ==
  IF HasTruthy(product, "similarity_percentage")
  THEN [unit |-> "percentage", value |-> product.similarity_percentage]
  ELSE IF "similarity" \in DOMAIN product
  THEN [unit |-> "cosine", value |-> product.similarity]
  ELSE [unit |-> "undefined", value |-> -1]

\* product.similarity_percentage || product.similarity || 0: the first truthy
\* operand, with the unit of the field it comes from (value in hundredths).
SimilarityOperand(product) ==
  IF HasTruthy(product, "similarity_percentage")
  THEN [unit |-> "percentage", value |-> product.similarity_percentage]
  ELSE IF HasTruthy(product, "similarity")
  THEN [unit |-> "cosine", value |-> product.similarity]
  ELSE [unit |-> "zero", value |-> 0]

Similarity(product) == SimilarityOperand(product).value

\* array.includes(x)
Includes(array, x) == \E i \in 1..Len(array) : array[i] = x

\* Mutant: similarity > similarityThreshold.
MeetsThresholdStrict(product, threshold) == Similarity(product) > threshold * Scale

\* Mutant: similarity <= similarityThreshold.
MeetsThresholdBelow(product, threshold) == Similarity(product) =< threshold * Scale

MeetsThreshold(product, threshold) == Similarity(product) >= threshold * Scale

MeetsCategory(product, selected) ==
  \/ Len(selected) = 0
  \/ Includes(selected, "All")
  \/ Includes(selected, product.category)

Keeps(product, threshold, selected) ==
  MeetsThreshold(product, threshold) /\ MeetsCategory(product, selected)

\* Array.prototype.filter with the predicate above: one pass, left to right,
\* each kept element appended to the output.
RECURSIVE FilterFrom(_, _, _, _, _)
FilterFrom(results, i, out, threshold, selected) ==
  IF i > Len(results) THEN out
  ELSE FilterFrom(results, i + 1,
                  IF Keeps(results[i], threshold, selected)
                  THEN Append(out, results[i]) ELSE out,
                  threshold, selected)

\* Mutant: each kept element is put in front of the output.
RECURSIVE FilterFromPrepending(_, _, _, _, _)
FilterFromPrepending(results, i, out, threshold, selected) ==
  IF i > Len(results) THEN out
  ELSE FilterFromPrepending(results, i + 1,
                            IF Keeps(results[i], threshold, selected)
                            THEN <<results[i]>> \o out ELSE out,
                            threshold, selected)

FilterResultsPrepending(results, threshold, selected) ==
  FilterFromPrepending(results, 1, <<>>, threshold, selected)

FilterResults(results, threshold, selected) ==
  FilterFrom(results, 1, <<>>, threshold, selected)

(***************************************************************************)
(* The search backend, behind POST /api/search: the similarity ranker      *)
(***************************************************************************)
\* One search result: the catalog record with its score and the percentage
\* derived from it.
SearchResult(i, sim) ==
  [id |-> i, category |-> CategoryOf(i),
   similarity |-> sim, similarity_percentage |-> sim * Scale]

\* Stable insertion by score descending: x goes after every element whose
\* score is at least its own.
RECURSIVE InsertByScore(_, _)
InsertByScore(x, sorted) ==
  IF sorted = <<>> THEN <<x>>
  ELSE IF Head(sorted).similarity >= x.similarity
       THEN <<Head(sorted)>> \o InsertByScore(x, Tail(sorted))
       ELSE <<x>> \o sorted

RECURSIVE RankFrom(_, _, _, _, _)
RankFrom(n, score, i, tau, sorted) ==
  IF i > n THEN sorted
  ELSE RankFrom(n, score, i + 1, tau,
                IF score[i] >= tau * Scale
                THEN InsertByScore(SearchResult(i, score[i]), sorted)
                ELSE sorted)

\* Discard sim < tau, sort by sim descending (stable), keep the first K.
Rank(n, score, tau, K) ==
  LET sorted == RankFrom(n, score, 1, tau, <<>>)
  IN  SubSeq(sorted, 1, IF Len(sorted) < K THEN Len(sorted) ELSE K)

\* The top_k and the similarity threshold handleSearch asks for.
TopK == 11

InitialThreshold == 0

\* Every result list the ranker may give for a threshold and a cap, over the
\* stores (empty or full) and the scores the query may have against them.
RankerAnswers ==
  [tau \in {InitialThreshold}, K \in {TopK} |->
     { Rank(n, score, tau, K) :
         n \in {0, MaxStore}, score \in [1..MaxStore -> SimValues] }]

\* Every result list the backend may answer the request with.
Responses(request) == RankerAnswers[request.similarity_threshold, request.top_k]

(***************************************************************************)
(* ApiClient.searchSimilarProducts                                         *)
(***************************************************************************)
\* The form data of the request: a field is appended when its argument is
\* truthy (undefined otherwise, here Null).
SearchRequest(file, imageUrl, topK, similarityThreshold) ==
  [file |-> IF Truthy(file) THEN file ELSE Null,
   image_url |-> IF Truthy(imageUrl) THEN imageUrl ELSE Null,
   top_k |-> topK,
   similarity_threshold |-> similarityThreshold]

\* The detail a backend error carries.
ErrorDetail == "Could not fetch image from URL"

\* Bodies of a response that is not ok: not JSON (a gateway's page), the
\* JSON literal null, and JSON objects with a detail, an empty detail and
\* no detail.
ErrorBodies ==
  { [type |-> "text", value |-> [raw |-> "<html>Bad Gateway</html>"]],
    [type |-> "null", value |-> [raw |-> "null"]],
    [type |-> "object", value |-> [detail |-> ErrorDetail]],
    [type |-> "object", value |-> [detail |-> ""]],
    [type |-> "object", value |-> [message |-> "Internal error"]] }

\* What fetch may come back with, for the threshold and cap of a request:
\* its promise rejects (no response), or a response arrives, ok with the
\* backend's results or not ok with one of the bodies above.
HttpAnswers ==
  [tau \in {InitialThreshold}, K \in {TopK} |->
     { [responds |-> TRUE, ok |-> TRUE, status |-> "200", statusText |-> "OK",
        body |-> [type |-> "object", value |-> [results |-> r]]] :
         r \in RankerAnswers[tau, K] }
       \cup { [responds |-> TRUE, ok |-> FALSE, status |-> "500",
               statusText |-> "Internal Server Error", body |-> b] :
                b \in ErrorBodies }
       \cup { [responds |-> FALSE, ok |-> FALSE, status |-> "0", statusText |-> "",
               body |-> [type |-> "text", value |-> [raw |-> ""]]] }]

HttpOutcomes(request) == HttpAnswers[request.similarity_threshold, request.top_k]

\* The message of the TypeError that reading .detail of null throws (V8's
\* wording).
NullDetailTypeError == "Cannot read properties of null (reading 'detail')"

\* A rejected promise, with the message of its Error.
Rejected(message) == [resolved |-> FALSE, results |-> <<>>, message |-> message]

\* await response.json().catch(() => ({ detail: 'Search failed' }))
ErrorData(body) ==
  IF body.type = "text"
  THEN [type |-> "object", value |-> [detail |-> "Search failed"]]
  ELSE body

\* The promise searchSimilarProducts returns, settled: resolved with the
\* parsed body, or rejected with an Error carrying message.
SearchSimilarProducts(outcome) ==
  IF ~outcome.responds THEN Rejected("Failed to fetch")
  ELSE IF ~outcome.ok
  THEN LET errorData == ErrorData(outcome.body) IN
       IF errorData.type = "null" THEN Rejected(NullDetailTypeError)
       ELSE IF "detail" \in DOMAIN errorData.value /\ Truthy(errorData.value.detail)
       THEN Rejected(errorData.value.detail)
       ELSE Rejected("HTTP " \o outcome.status \o ": " \o outcome.statusText)
  ELSE [resolved |-> TRUE, results |-> outcome.body.value.results, message |-> ""]

(***************************************************************************)
(* ApiClient.getImageUrl                                                   *)
(***************************************************************************)
\* Values of import.meta.env.VITE_API_URL: unset, empty, a URL, a path.
ViteApiUrls == {Null, "", "https://api.example.com", "/backend"}

\* import.meta.env.VITE_API_URL || 'http://localhost:8000'
API_BASE_URL(env) == IF Truthy(env) THEN env ELSE "http://localhost:8000"

\* The baseUrl the ApiClient may be constructed with.
BaseUrls == { API_BASE_URL(env) : env \in ViteApiUrls }

\* Mutant: no test for an absolute URL, every path is put under baseUrl.
GetImageUrlAlwaysJoins(baseUrl, imagePath) ==
  LET cleanPath == IF StartsWith(imagePath, "static/")
                   THEN imagePath ELSE "static/" \o imagePath
  IN  baseUrl \o "/" \o cleanPath

GetImageUrl(baseUrl, imagePath) ==
  IF StartsWith(imagePath, "http") THEN imagePath
  ELSE LET cleanPath == IF StartsWith(imagePath, "static/")
                        THEN imagePath ELSE "static/" \o imagePath
       IN  baseUrl \o "/" \o cleanPath

\* image_path values a catalog record may carry.
ImagePaths ==
  {"images/shoe.jpg", "static/images/shoe.jpg", "/static/images/shoe.jpg",
   "http://cdn.example.com/shoe.jpg", "https://cdn.example.com/shoe.jpg",
   "httpdocs/shoe.jpg", "static", ""}

(***************************************************************************)
(* mockProducts.ts: the mock catalog and its mock search                   *)
(***************************************************************************)
mockProducts ==
  << [id |-> "1", name |-> "iPhone 15 Pro", category |-> "Electronics"],
     [id |-> "2", name |-> "Premium Leather Handbag", category |-> "Bags"],
     [id |-> "3", name |-> "Athletic Running Shoes", category |-> "Shoes"],
     [id |-> "4", name |-> "Wireless Headphones", category |-> "Electronics"],
     [id |-> "5", name |-> "Samsung Galaxy S24", category |-> "Electronics"],
     [id |-> "6", name |-> "Classic Crossbody Bag", category |-> "Bags"],
     [id |-> "7", name |-> "Trail Running Shoes", category |-> "Shoes"],
     [id |-> "8", name |-> "Gaming Headset", category |-> "Electronics"] >>

\* Values Math.random() may return, in hundredths: 0 <= r < 1.
RandomDraws == {0, 50, 95}

\* Math.random() * 0.4 + 0.6, in hundredths.
MockSimilarity(r) == (r * 4) \div 10 + 60

\* { ...product, similarity: s }
WithSimilarity(product, s) ==
  [id |-> product.id, name |-> product.name, category |-> product.category,
   similarity |-> s]

\* Mutant: (a.similarity || 0) - (b.similarity || 0), ascending.
CompareSimilarityAscending(a, b) ==
  (IF HasTruthy(a, "similarity") THEN a.similarity ELSE 0)
    - (IF HasTruthy(b, "similarity") THEN b.similarity ELSE 0)

\* The comparator: (b.similarity || 0) - (a.similarity || 0).
CompareSimilarity(a, b) ==
  (IF HasTruthy(b, "similarity") THEN b.similarity ELSE 0)
    - (IF HasTruthy(a, "similarity") THEN a.similarity ELSE 0)

\* Array.prototype.sort is stable: x goes after every element the comparator
\* does not put behind it.
RECURSIVE InsertSorted(_, _)
InsertSorted(x, sorted) ==
  IF sorted = <<>> THEN <<x>>
  ELSE IF CompareSimilarity(Head(sorted), x) =< 0
       THEN <<Head(sorted)>> \o InsertSorted(x, Tail(sorted))
       ELSE <<x>> \o sorted

RECURSIVE SortFrom(_, _, _)
SortFrom(array, i, sorted) ==
  IF i > Len(array) THEN sorted
  ELSE SortFrom(array, i + 1, InsertSorted(array[i], sorted))

\* random[i] is the value Math.random() returns for the i-th product.
generateMockSearchResults(random) ==
  SortFrom([i \in 1..Len(mockProducts) |->
              WithSimilarity(mockProducts[i], MockSimilarity(random[i]))],
           1, <<>>)

(***************************************************************************)
(* State                                                                   *)
(***************************************************************************)
VARIABLES
  uploadedImage,        \* ProductMatcher: the image shown as selected, or Null
  uploadedFile,         \* ProductMatcher: the selected file, or Null
  imageUrl,             \* ProductMatcher: the selected image URL, or Null
  searchResults,        \* ProductMatcher: the products of the last response
  isLoading,            \* ProductMatcher: a search is running
  hasSearched,          \* ProductMatcher: a search has completed for the image
  similarityThreshold,  \* ProductMatcher: the slider's value
  selectedCategories,   \* ProductMatcher: the selected category badges
  error,                \* ProductMatcher: the message of the failed search, or Null
  previewUrl,           \* ImageUploader: the image previewed, or ''
  urlInput,             \* ImageUploader: the text of the URL box
  showUrlInput,         \* ImageUploader: the URL box is shown
  pending,              \* calls of searchProducts that have not settled
  toast                 \* title of the last toast shown, or Null

matcherVars == <<uploadedImage, uploadedFile, imageUrl, searchResults, isLoading,
                 hasSearched, similarityThreshold, selectedCategories, error>>

uploaderVars == <<previewUrl, urlInput, showUrlInput>>

vars == <<matcherVars, uploaderVars, pending, toast>>

\* The Slider of FilterPanel: min, max, and the positions the model moves it to.
SliderMin == 50

SliderMax == 100

SliderValues == {v \in SliderMin..SliderMax : v \in {SliderMin, 75, SliderMax}}

\* useMemo filteredResults: the products the results grid shows.
filteredResults == FilterResults(searchResults, similarityThreshold, selectedCategories)

\* What the page renders (ProductMatcher's JSX conditions).
SearchButtonShown == Truthy(uploadedImage)

ResultsSectionShown == hasSearched /\ ~isLoading

ErrorCardShown == ResultsSectionShown /\ Truthy(error)

NoSimilarProductsShown ==
  ResultsSectionShown /\ Len(filteredResults) = 0 /\ Len(searchResults) = 0

NoMatchForFiltersShown ==
  ResultsSectionShown /\ Len(filteredResults) = 0 /\ Len(searchResults) # 0

\* FilterPanel: the Clear button is rendered when hasActiveFilters.
HasActiveFilters == similarityThreshold < 100 \/ Len(selectedCategories) > 0

Init ==
  /\ uploadedImage = Null
  /\ uploadedFile = Null
  /\ imageUrl = Null
  /\ searchResults = <<>>
  /\ isLoading = FALSE
  /\ hasSearched = FALSE
  /\ similarityThreshold = 0
  /\ selectedCategories = <<>>
  /\ error = Null
  /\ previewUrl = ""
  /\ urlInput = ""
  /\ showUrlInput = FALSE
  /\ pending = <<>>
  /\ toast = Null

(***************************************************************************)
(* ProductMatcher.handleImageUpload                                        *)
(***************************************************************************)
\* Mutant: the branch taken does not reset the other source.
HandleImageUploadKeepsOther(image, isString) ==
  /\ error' = Null
  /\ IF isString
     THEN /\ uploadedImage' = image
          /\ imageUrl' = image
          /\ uploadedFile' = uploadedFile
     ELSE /\ uploadedImage' = CreateObjectURL(image)
          /\ uploadedFile' = image
          /\ imageUrl' = imageUrl
  /\ hasSearched' = FALSE
  /\ UNCHANGED <<searchResults, isLoading, similarityThreshold, selectedCategories>>

\* Mutant: no setHasSearched(false).
HandleImageUploadKeepsHasSearched(image, isString) ==
  /\ error' = Null
  /\ IF isString
     THEN /\ uploadedImage' = image
          /\ imageUrl' = image
          /\ uploadedFile' = Null
     ELSE /\ uploadedImage' = CreateObjectURL(image)
          /\ uploadedFile' = image
          /\ imageUrl' = Null
  /\ UNCHANGED <<hasSearched, searchResults, isLoading, similarityThreshold,
                 selectedCategories>>

HandleImageUpload(image, isString) ==
  /\ error' = Null
  /\ IF isString
     THEN /\ uploadedImage' = image
          /\ imageUrl' = image
          /\ uploadedFile' = Null
     ELSE /\ uploadedImage' = CreateObjectURL(image)
          /\ uploadedFile' = image
          /\ imageUrl' = Null
  /\ hasSearched' = FALSE
  /\ UNCHANGED <<searchResults, isLoading, similarityThreshold, selectedCategories>>

(***************************************************************************)
(* ImageUploader                                                           *)
(***************************************************************************)
\* The file input lives in the drop zone, which is rendered while there is no
\* preview; the zone and the Browse button are inert while isLoading.
\* Mutant: file.size >= 10 * 1024 * 1024 is rejected.
HandleFilesSizeStrict(file) ==
  /\ previewUrl = ""
  /\ ~isLoading
  /\ IF ~StartsWithImage(FileType(file))
     THEN /\ toast' = "Invalid file type"
          /\ UNCHANGED <<matcherVars, uploaderVars, pending>>
     ELSE IF FileSize(file) >= MaxFileSize
     THEN /\ toast' = "File too large"
          /\ UNCHANGED <<matcherVars, uploaderVars, pending>>
     ELSE /\ previewUrl' = CreateObjectURL(file)
          /\ HandleImageUpload(file, FALSE)
          /\ UNCHANGED <<urlInput, showUrlInput, pending, toast>>

HandleFiles(file) ==
  /\ previewUrl = ""
  /\ ~isLoading
  /\ IF ~StartsWithImage(FileType(file))
     THEN /\ toast' = "Invalid file type"
          /\ UNCHANGED <<matcherVars, uploaderVars, pending>>
     ELSE IF FileSize(file) > MaxFileSize
     THEN /\ toast' = "File too large"
          /\ UNCHANGED <<matcherVars, uploaderVars, pending>>
     ELSE /\ previewUrl' = CreateObjectURL(file)
          /\ HandleImageUpload(file, FALSE)
          /\ UNCHANGED <<urlInput, showUrlInput, pending, toast>>

ToggleUrlInput ==
  /\ ~isLoading
  /\ showUrlInput' = ~showUrlInput
  /\ UNCHANGED <<matcherVars, previewUrl, urlInput, pending, toast>>

SetUrlInput(text) ==
  /\ showUrlInput
  /\ urlInput' = text
  /\ UNCHANGED <<matcherVars, previewUrl, showUrlInput, pending, toast>>

\* Mutant: the box is closed and emptied after the try block, whatever it did.
HandleUrlSubmitAlwaysResets ==
  /\ showUrlInput
  /\ IF Trim(urlInput) = ""
     THEN UNCHANGED vars
     ELSE IF IsValidUrl(urlInput)
     THEN /\ previewUrl' = urlInput
          /\ HandleImageUpload(urlInput, TRUE)
          /\ showUrlInput' = FALSE
          /\ urlInput' = ""
          /\ UNCHANGED <<pending, toast>>
     ELSE /\ toast' = "Invalid URL"
          /\ showUrlInput' = FALSE
          /\ urlInput' = ""
          /\ UNCHANGED <<matcherVars, previewUrl, pending>>

\* The Add button (disabled on blank input) or the Enter key (always live).
HandleUrlSubmit ==
  /\ showUrlInput
  /\ IF Trim(urlInput) = ""
     THEN UNCHANGED vars
     ELSE IF IsValidUrl(urlInput)
     THEN /\ previewUrl' = urlInput
          /\ HandleImageUpload(urlInput, TRUE)
          /\ showUrlInput' = FALSE
          /\ urlInput' = ""
          /\ UNCHANGED <<pending, toast>>
     ELSE /\ toast' = "Invalid URL"
          /\ UNCHANGED <<matcherVars, uploaderVars, pending>>

ClearPreview ==
  /\ previewUrl # ""
  /\ previewUrl' = ""
  /\ urlInput' = ""
  /\ UNCHANGED <<matcherVars, showUrlInput, pending, toast>>

(***************************************************************************)
(* ProductMatcher.handleSearch                                             *)
(***************************************************************************)
\* Up to the await: the guard, the loading state and the call of
\* searchProducts. The button that calls it is rendered when an image is
\* selected and is disabled while isLoading; without an image the handler is
\* reached by a direct call only.
\* Mutant: no guard on uploadedImage.
HandleSearchUnguarded ==
  /\ ~isLoading
  /\ isLoading' = TRUE
  /\ error' = Null
  /\ toast' = "Searching..."
  /\ pending' = Append(pending,
                  [request |-> SearchRequest(uploadedFile, imageUrl, TopK,
                                             InitialThreshold),
                   similarityThreshold |-> similarityThreshold,
                   selectedCategories |-> selectedCategories])
  /\ UNCHANGED <<uploadedImage, uploadedFile, imageUrl, searchResults,
                 hasSearched, similarityThreshold, selectedCategories,
                 uploaderVars>>

\* Mutant: the search button is not disabled while isLoading.
HandleSearchNotDisabled ==
  IF ~Truthy(uploadedImage)
  THEN /\ toast' = "No image selected"
       /\ UNCHANGED <<matcherVars, uploaderVars, pending>>
  ELSE /\ isLoading' = TRUE
       /\ error' = Null
       /\ toast' = "Searching..."
       /\ pending' = Append(pending,
                       [request |-> SearchRequest(uploadedFile, imageUrl, TopK,
                                                  InitialThreshold),
                        similarityThreshold |-> similarityThreshold,
                        selectedCategories |-> selectedCategories])
       /\ UNCHANGED <<uploadedImage, uploadedFile, imageUrl, searchResults,
                      hasSearched, similarityThreshold, selectedCategories,
                      uploaderVars>>

HandleSearch ==
  IF ~Truthy(uploadedImage)
  THEN /\ toast' = "No image selected"
       /\ UNCHANGED <<matcherVars, uploaderVars, pending>>
  ELSE /\ ~isLoading
       /\ isLoading' = TRUE
       /\ error' = Null
       /\ toast' = "Searching..."
       /\ pending' = Append(pending,
                       [request |-> SearchRequest(uploadedFile, imageUrl, TopK,
                                                  InitialThreshold),
                        similarityThreshold |-> similarityThreshold,
                        selectedCategories |-> selectedCategories])
       /\ UNCHANGED <<uploadedImage, uploadedFile, imageUrl, searchResults,
                      hasSearched, similarityThreshold, selectedCategories,
                      uploaderVars>>

\* filteredCount of the 'Search completed!' toast ('Found N products'): the
\* response filtered with the similarityThreshold and selectedCategories of
\* the render whose handleSearch made the call.
FilteredCount(results, call) ==
  Len(FilterResults(results, call.similarityThreshold, call.selectedCategories))

\* Mutant: a response with no results is handled as a failed search.
SearchResolvesEmptyIsError ==
  /\ pending # <<>>
  /\ \E outcome \in HttpOutcomes(Head(pending).request) :
       LET settled == SearchSimilarProducts(outcome) IN
       /\ settled.resolved
       /\ IF settled.results = <<>>
          THEN /\ error' = "No results"
               /\ toast' = "Search failed"
               /\ UNCHANGED <<searchResults, hasSearched>>
          ELSE /\ searchResults' = settled.results
               /\ hasSearched' = TRUE
               /\ toast' = "Search completed!"
               /\ error' = error
       /\ isLoading' = FALSE
  /\ pending' = Tail(pending)
  /\ UNCHANGED <<uploadedImage, uploadedFile, imageUrl, similarityThreshold,
                 selectedCategories, uploaderVars>>

\* After the await, the promise resolved: the try block's rest, then finally.
SearchResolves ==
  /\ pending # <<>>
  /\ \E outcome \in HttpOutcomes(Head(pending).request) :
       LET settled == SearchSimilarProducts(outcome) IN
       /\ settled.resolved
       /\ searchResults' = settled.results
       /\ hasSearched' = TRUE
       /\ toast' = "Search completed!"
       /\ isLoading' = FALSE
  /\ pending' = Tail(pending)
  /\ UNCHANGED <<uploadedImage, uploadedFile, imageUrl, similarityThreshold,
                 selectedCategories, error, uploaderVars>>

\* Mutant: setIsLoading(false) at the end of the try block, not in finally.
SearchRejectsNoFinally ==
  /\ pending # <<>>
  /\ \E outcome \in HttpOutcomes(Head(pending).request) :
       LET settled == SearchSimilarProducts(outcome) IN
       /\ ~settled.resolved
       /\ error' = settled.message
       /\ toast' = "Search failed"
  /\ pending' = Tail(pending)
  /\ UNCHANGED <<uploadedImage, uploadedFile, imageUrl, searchResults, hasSearched,
                 isLoading, similarityThreshold, selectedCategories, uploaderVars>>

\* After the await, the promise rejected: the catch block, then finally.
SearchRejects ==
  /\ pending # <<>>
  /\ \E outcome \in HttpOutcomes(Head(pending).request) :
       LET settled == SearchSimilarProducts(outcome) IN
       /\ ~settled.resolved
       /\ error' = settled.message
       /\ toast' = "Search failed"
       /\ isLoading' = FALSE
  /\ pending' = Tail(pending)
  /\ UNCHANGED <<uploadedImage, uploadedFile, imageUrl, searchResults, hasSearched,
                 similarityThreshold, selectedCategories, uploaderVars>>

(***************************************************************************)
(* The filter panel, rendered in the results section                       *)
(***************************************************************************)
\* Mutant: the filter panel is rendered, and its slider live, at all times.
SetSimilarityThresholdAnytime(value) ==
  /\ similarityThreshold' = value
  /\ UNCHANGED <<uploadedImage, uploadedFile, imageUrl, searchResults, isLoading,
                 hasSearched, selectedCategories, error, uploaderVars, pending, toast>>

SetSimilarityThreshold(value) ==
  /\ ResultsSectionShown
  /\ similarityThreshold' = value
  /\ UNCHANGED <<uploadedImage, uploadedFile, imageUrl, searchResults, isLoading,
                 hasSearched, selectedCategories, error, uploaderVars, pending, toast>>

\* prev.filter(c => c !== category)
RECURSIVE Without(_, _)
Without(array, category) ==
  IF array = <<>> THEN <<>>
  ELSE IF Head(array) = category THEN Without(Tail(array), category)
       ELSE <<Head(array)>> \o Without(Tail(array), category)

\* Mutant: no prev.includes(category) test, the category is always added.
ToggleCategoryAlwaysAdds(prev, category) ==
  IF category = "All" THEN <<>>
  ELSE Append(Without(prev, "All"), category)

\* The value handleCategoryToggle gives selectedCategories, from prev.
ToggleCategory(prev, category) ==
  IF category = "All" THEN <<>>
  ELSE IF Includes(prev, category)
       THEN Without(prev, category)
       ELSE Append(Without(prev, "All"), category)

HandleCategoryToggle(category) ==
  /\ ResultsSectionShown
  /\ selectedCategories' = ToggleCategory(selectedCategories, category)
  /\ UNCHANGED <<uploadedImage, uploadedFile, imageUrl, searchResults, isLoading,
                 hasSearched, similarityThreshold, error, uploaderVars, pending, toast>>

\* Mutant: the threshold is reset to the slider's minimum.
HandleClearFiltersToSliderMin ==
  /\ ResultsSectionShown
  /\ HasActiveFilters
  /\ similarityThreshold' = SliderMin
  /\ selectedCategories' = <<>>
  /\ UNCHANGED <<uploadedImage, uploadedFile, imageUrl, searchResults, isLoading,
                 hasSearched, error, uploaderVars, pending, toast>>

HandleClearFilters ==
  /\ ResultsSectionShown
  /\ HasActiveFilters
  /\ similarityThreshold' = 0
  /\ selectedCategories' = <<>>
  /\ UNCHANGED <<uploadedImage, uploadedFile, imageUrl, searchResults, isLoading,
                 hasSearched, error, uploaderVars, pending, toast>>

(***************************************************************************)
(* The specification                                                       *)
(***************************************************************************)
Next ==
  \/ \E file \in FileNames : HandleFiles(file)
  \/ ToggleUrlInput
  \/ \E text \in UrlInputs : SetUrlInput(text)
  \/ HandleUrlSubmit
  \/ ClearPreview
  \/ HandleSearch
  \/ SearchResolves
  \/ SearchRejects
  \/ \E value \in SliderValues : SetSimilarityThreshold(value)
  \/ \E category \in CategoryNames : HandleCategoryToggle(category)
  \/ HandleClearFilters

Spec == Init /\ [][Next]_vars

\* The call of searchProducts settles: the promise of a pending call is
\* resolved or rejected, and handleSearch resumes.
SearchSettles == SearchResolves \/ SearchRejects

FairSpec == Spec /\ WF_vars(SearchSettles)

\* ImageUploader on its own, with ProductMatcher's handleImageUpload as its
\* onImageUpload and no search running: every file format and size.
UploaderNext ==
  \/ \E file \in UploaderFiles : HandleFiles(file)
  \/ ToggleUrlInput
  \/ \E text \in UrlInputs : SetUrlInput(text)
  \/ HandleUrlSubmit
  \/ ClearPreview

UploaderSpec == Init /\ [][UploaderNext]_vars

\* The results grid on its own: a completed search whose two products carry
\* any image paths, and the filter panel, which decides what is rendered.
GridProduct(i, path) ==
  [id |-> i, category |-> CategoryOf(i), similarity |-> 75,
   similarity_percentage |-> 75 * Scale, image_path |-> path]

GridInit ==
  /\ uploadedImage = CreateObjectURL("shoe.png")
  /\ uploadedFile = "shoe.png"
  /\ imageUrl = Null
  /\ searchResults \in { <<GridProduct(1, p1), GridProduct(2, p2)>> :
                            p1 \in ImagePaths, p2 \in ImagePaths }
  /\ isLoading = FALSE
  /\ hasSearched = TRUE
  /\ similarityThreshold = 0
  /\ selectedCategories = <<>>
  /\ error = Null
  /\ previewUrl = CreateObjectURL("shoe.png")
  /\ urlInput = ""
  /\ showUrlInput = FALSE
  /\ pending = <<>>
  /\ toast = "Search completed!"

GridNext ==
  \/ \E value \in SliderValues : SetSimilarityThreshold(value)
  \/ \E category \in CategoryNames : HandleCategoryToggle(category)
  \/ HandleClearFilters

GridSpec == GridInit /\ [][GridNext]_vars

\* The product ProductMatcher hands to a ProductCard of the grid, and the
\* src ProductCard gives its img.
CardProduct(baseUrl, product) ==
  [product EXCEPT !.image_path = GetImageUrl(baseUrl, product.image_path)]

CardImageSrc(baseUrl, product) ==
  GetImageUrl(baseUrl, CardProduct(baseUrl, product).image_path)

\* The mock search on its own: one call of generateMockSearchResults, whose
\* return value is held in searchResults.
MockSearch ==
  /\ ~hasSearched
  /\ \E random \in [1..Len(mockProducts) -> RandomDraws] :
       searchResults' = generateMockSearchResults(random)
  /\ hasSearched' = TRUE
  /\ UNCHANGED <<uploadedImage, uploadedFile, imageUrl, isLoading,
                 similarityThreshold, selectedCategories, error, uploaderVars,
                 pending, toast>>

MockNext == MockSearch

MockSpec == Init /\ [][MockNext]_vars

(***************************************************************************)
(* Properties                                                              *)
(***************************************************************************)
\* C1: uploadedFile and imageUrl are never both set, uploadedImage is set
\* exactly when one of them is, and every search request that has been sent
\* carries exactly one of file and image_url.
C1_ExactlyOneImageSource ==
  /\ ~(uploadedFile # Null /\ imageUrl # Null)
  /\ (uploadedImage # Null) <=> (uploadedFile # Null \/ imageUrl # Null)
  /\ \A i \in 1..Len(pending) :
       (pending[i].request.file # Null) <=> (pending[i].request.image_url = Null)

\* A search for a file is in flight and a URL has since replaced the file.
C1_Witness ==
  /\ pending # <<>>
  /\ Head(pending).request.file # Null
  /\ imageUrl # Null
  /\ uploadedFile = Null

\* C2: handleSearch with no image selected shows the validation toast and
\* calls nothing: no request is added, and isLoading, searchResults,
\* hasSearched and error keep their values.
C2_NoImageNoSearch ==
  [][ (~Truthy(uploadedImage) /\ HandleSearch)
        => /\ toast' = "No image selected"
           /\ pending' = pending
           /\ UNCHANGED <<isLoading, searchResults, hasSearched, error>> ]_vars

\* handleSearch has been called with no image selected.
C2_Witness ==
  /\ toast = "No image selected"
  /\ ~Truthy(uploadedImage)
  /\ pending = <<>>
  /\ ~isLoading

(***************************************************************************)
(* The displayed result list                                               *)
(***************************************************************************)
\* The values similarityThreshold takes: its initial value and the slider's.
ThresholdValues == {0} \cup SliderValues

\* The elements of a list, as a set.
Elements(array) == { array[i] : i \in 1..Len(array) }

\* The similarity of a result as a percentage (fixed point): cosine * 100.
SimilarityPercent(product) == product.similarity * 100

\* a is b with some elements left out, the rest in b's order.
RECURSIVE IsSubsequence(_, _)
IsSubsequence(a, b) ==
  IF a = <<>> THEN TRUE
  ELSE IF b = <<>> THEN FALSE
  ELSE IF Head(a) = Head(b) THEN IsSubsequence(Tail(a), Tail(b))
  ELSE IsSubsequence(a, Tail(b))

\* Score descending, equal scores in catalog order.
ScoreOrdered(array) ==
  \A i, j \in 1..Len(array) :
    i < j => \/ array[i].similarity > array[j].similarity
             \/ /\ array[i].similarity = array[j].similarity
                /\ array[i].id < array[j].id

C4_ThresholdMonotone ==
  \A t1, t2 \in ThresholdValues :
    t1 < t2 => Elements(FilterResults(searchResults, t2, selectedCategories))
                 \subseteq Elements(FilterResults(searchResults, t1, selectedCategories))

\* The slider has been moved and some higher threshold displays strictly less.
C4_Witness ==
  /\ ResultsSectionShown
  /\ similarityThreshold > 0
  /\ \E t1, t2 \in ThresholdValues :
       /\ t1 < t2
       /\ Elements(FilterResults(searchResults, t2, selectedCategories)) # {}
       /\ Elements(FilterResults(searchResults, t2, selectedCategories))
            # Elements(FilterResults(searchResults, t1, selectedCategories))

\* C5: filteredResults is searchResults with some products left out and the
\* rest in the same order; it is no longer than the number of results that
\* pass the threshold, and it is ordered by score (ties in catalog order)
\* when the response is.
C5_OrderPreservingSubsequence ==
  /\ IsSubsequence(filteredResults, searchResults)
  /\ Len(filteredResults) =<
       Cardinality({ i \in 1..Len(searchResults) :
                       MeetsThreshold(searchResults[i], similarityThreshold) })
  /\ ScoreOrdered(searchResults) => ScoreOrdered(filteredResults)

\* Two results with one score are both displayed, in the response's order.
C5_Witness ==
  /\ ResultsSectionShown
  /\ Len(searchResults) = 2
  /\ Len(filteredResults) = 2
  /\ similarityThreshold > 0
  /\ searchResults[1].similarity = searchResults[2].similarity

\* C6: with no category selected, a product of the response is displayed
\* exactly when its similarity, as a percentage, is at least the threshold.
C6_ThresholdExact ==
  selectedCategories = <<>>
    => \A i \in 1..Len(searchResults) :
         Includes(filteredResults, searchResults[i])
           <=> SimilarityPercent(searchResults[i]) >= similarityThreshold * Scale

\* A product exactly at the threshold is displayed and one below it is not.
C6_Witness ==
  /\ ResultsSectionShown
  /\ selectedCategories = <<>>
  /\ similarityThreshold > 0
  /\ \E i \in 1..Len(searchResults) :
       /\ SimilarityPercent(searchResults[i]) = similarityThreshold * Scale
       /\ Includes(filteredResults, searchResults[i])
  /\ \E i \in 1..Len(searchResults) : ~Includes(filteredResults, searchResults[i])

DegenerateProducts ==
  { [id |-> 1, category |-> CategoryOf(1)],
    [id |-> 1, category |-> CategoryOf(1), similarity |-> 0],
    [id |-> 1, category |-> CategoryOf(1), similarity_percentage |-> 0],
    [id |-> 1, category |-> CategoryOf(1), similarity |-> 0,
     similarity_percentage |-> 0] }

\* C8: a result whose similarity is 0 or missing is compared as 0: no
\* positive threshold displays it, and threshold 0 displays it when its
\* category is admitted.
C8_DegenerateIsZero ==
  /\ \A i \in 1..Len(searchResults) :
       searchResults[i].similarity = 0
         => /\ Similarity(searchResults[i]) = 0
            /\ Includes(filteredResults, searchResults[i])
                 <=> /\ similarityThreshold = 0
                     /\ MeetsCategory(searchResults[i], selectedCategories)
  /\ \A product \in DegenerateProducts, t \in ThresholdValues :
       Keeps(product, t, selectedCategories)
         <=> (t = 0 /\ MeetsCategory(product, selectedCategories))

\* A result with score 0 is hidden by a positive threshold, next to one shown.
C8_Witness ==
  /\ ResultsSectionShown
  /\ similarityThreshold > 0
  /\ Len(filteredResults) > 0
  /\ \E i \in 1..Len(searchResults) :
       /\ searchResults[i].similarity = 0
       /\ ~Includes(filteredResults, searchResults[i])

(***************************************************************************)
(* The search round trip                                                   *)
(***************************************************************************)
\* C9: a response with no results ends the search as a success: no error,
\* not loading, hasSearched set, and the page shows 'No similar products
\* found', not the error card.
C9_EmptyResponseIsSuccess ==
  [][ (SearchResolves /\ searchResults' = <<>>)
        => /\ hasSearched'
           /\ error' = Null
           /\ ~isLoading'
           /\ NoSimilarProductsShown'
           /\ ~ErrorCardShown' ]_vars

\* A search has just completed with an empty response.
C9_Witness ==
  /\ toast = "Search completed!"
  /\ searchResults = <<>>
  /\ NoSimilarProductsShown
  /\ error = Null

\* The step settles a pending call as a success: the response replaces
\* searchResults, hasSearched is set, no error.
SuccessOutcome ==
  /\ searchResults' \in Responses(Head(pending).request)
  /\ hasSearched'
  /\ error' = Null

\* The step settles a pending call as a failure: error holds a message and
\* the results are left as they were.
FailureOutcome ==
  /\ Truthy(error')
  /\ UNCHANGED <<searchResults, hasSearched>>

\* C10: a started search sets isLoading; the step that settles it is exactly
\* one of success and failure and resets isLoading; a pending search can fail
\* at any moment; and, the call settling, isLoading always returns to false.
C10_SearchEnds ==
  /\ [][ (Truthy(uploadedImage) /\ HandleSearch)
           => (isLoading' /\ Len(pending') = Len(pending) + 1) ]_vars
  /\ [][ Len(pending') < Len(pending)
           => /\ ~isLoading'
              /\ SuccessOutcome # FailureOutcome ]_vars
  /\ [](isLoading => (pending # <<>> /\ ENABLED SearchRejects))
  /\ (isLoading ~> ~isLoading)

\* A search has failed after an earlier one succeeded with results.
C10_Witness ==
  /\ toast = "Search failed"
  /\ Truthy(error)
  /\ ~isLoading
  /\ hasSearched
  /\ searchResults # <<>>

(***************************************************************************)
(* Failed searches                                                         *)
(***************************************************************************)
\* The step hands an image to onImageUpload: an accepted file or a valid URL.
ImageSelected ==
  \/ \E file \in FileNames :
       /\ HandleFiles(file)
       /\ StartsWithImage(FileType(file))
       /\ FileSize(file) =< MaxFileSize
  \/ /\ HandleUrlSubmit
     /\ Trim(urlInput) # ""
     /\ IsValidUrl(urlInput)

\* The catch block: error holds the message of the rejection, and the step
\* itself changes neither searchResults nor hasSearched.
FailureIsSurfaced ==
  [][ SearchRejects
        => /\ Truthy(error')
           /\ UNCHANGED <<searchResults, hasSearched>> ]_vars

\* error is reset to null by the start of a search and by a selected image.
ErrorIsCleared ==
  [][ ((Truthy(uploadedImage) /\ HandleSearch) \/ ImageSelected)
        => error' = Null ]_vars

\* C11: a failed search stores its message in error and leaves searchResults
\* and hasSearched with the values they had before the search started: no
\* step from the start of a search to its failure changes them (a pending
\* search can fail after any such step); error is cleared when the next
\* search starts and when an image is selected.
C11_FailedSearchKeepsState ==
  /\ FailureIsSurfaced
  /\ [][ (pending # <<>> /\ pending' = pending)
           => UNCHANGED <<searchResults, hasSearched>> ]_vars
  /\ ErrorIsCleared

(***************************************************************************)
(* Validation in ImageUploader                                             *)
(***************************************************************************)
\* handleUrlSubmit returns early (blank input) or catches new URL's error.
UrlRejected ==
  /\ HandleUrlSubmit
  /\ (Trim(urlInput) = "" \/ ~IsValidUrl(urlInput))

UrlAccepted ==
  /\ HandleUrlSubmit
  /\ Trim(urlInput) # ""
  /\ IsValidUrl(urlInput)

\* handleFiles reaches onImageUpload(file).
FileAccepted(file) ==
  /\ HandleFiles(file)
  /\ StartsWithImage(FileType(file))
  /\ FileSize(file) =< MaxFileSize

\* C12: submitting a blank or malformed URL does not call onImageUpload (the
\* page's state is untouched) and leaves previewUrl, urlInput and
\* showUrlInput as they were; the URL box stays usable, and a valid URL or
\* an accepted file submitted afterwards is passed to onImageUpload.
C12_UrlRejectionIsHarmless ==
  /\ [][ UrlRejected => UNCHANGED <<matcherVars, uploaderVars, pending>> ]_vars
  /\ [][ UrlRejected => (showUrlInput' /\ ENABLED HandleUrlSubmit) ]_vars
  /\ [](showUrlInput => \A text \in UrlInputs : ENABLED SetUrlInput(text))
  /\ []((previewUrl = "" /\ ~isLoading)
          => \A file \in FileNames : ENABLED HandleFiles(file))
  /\ [][ UrlAccepted
           => /\ uploadedImage' = urlInput
              /\ imageUrl' = urlInput
              /\ previewUrl' = urlInput ]_vars
  /\ [][ \A file \in FileNames :
           FileAccepted(file)
             => /\ uploadedFile' = file
                /\ previewUrl' = CreateObjectURL(file) ]_vars

\* A malformed URL has been rejected, and the valid URL typed after it has
\* been submitted and is the selected image.
C12_Witness ==
  /\ toast = "Invalid URL"
  /\ imageUrl = GoodUrl
  /\ previewUrl = GoodUrl
  /\ uploadedFile = Null
  /\ ~showUrlInput

\* The formats ImageUploader says it supports (its drop zone's text, the
\* accept list of its file input), as MIME types.
SupportedTypes == {"image/jpeg", "image/jpg", "image/png", "image/webp"}

\* C13: a file reaches onImageUpload only when its format is JPEG/JPG, PNG
\* or WebP; handleFiles on a file of any other format calls nothing and
\* leaves the preview as it was.
C13_OnlySupportedFormats ==
  /\ [](uploadedFile # Null => FileType(uploadedFile) \in SupportedTypes)
  /\ [][ \A file \in UploaderFiles :
           (HandleFiles(file) /\ FileType(file) \notin SupportedTypes)
             => UNCHANGED <<matcherVars, previewUrl>> ]_vars

\* C15: a file of an accepted type is passed to onImageUpload exactly when
\* its size is at most 10 * 1024 * 1024 bytes; a larger file changes neither
\* the page's state nor previewUrl.
C15_SizeLimit ==
  [][ \A file \in UploaderFiles :
        (HandleFiles(file) /\ StartsWithImage(FileType(file)))
          => IF FileSize(file) =< 10 * 1024 * 1024
             THEN /\ uploadedFile' = file
                  /\ uploadedImage' = CreateObjectURL(file)
                  /\ previewUrl' = CreateObjectURL(file)
             ELSE /\ toast' = "File too large"
                  /\ UNCHANGED <<matcherVars, uploaderVars>> ]_vars

\* The file of exactly 10 MB is selected, after the file of one byte more
\* was turned down.
C15_Witness ==
  /\ uploadedFile = "shoe.png"
  /\ FileSize(uploadedFile) = 10 * 1024 * 1024
  /\ previewUrl = CreateObjectURL("shoe.png")
  /\ toast = "File too large"

(***************************************************************************)
(* Image URLs                                                              *)
(***************************************************************************)
\* What follows baseUrl and '/' in a URL built under baseUrl.
PathUnder(baseUrl, url) == SubSeq(url, Len(baseUrl) + 2, Len(url))

\* C14: with a baseUrl that starts with 'http', for the image path p of
\* every displayed product: getImageUrl returns p unchanged when p starts
\* with 'http'; getImageUrl(getImageUrl(p)) = getImageUrl(p), so the src of
\* the card (two applications) is the URL of one application; and when p
\* does not start with 'http' that URL is baseUrl, '/', and p with 'static/'
\* put in front of it unless p starts with it already.
C14_ImageUrlIdempotent ==
  \A baseUrl \in BaseUrls :
    StartsWith(baseUrl, "http")
      => \A i \in 1..Len(filteredResults) :
           LET p    == filteredResults[i].image_path
               once == GetImageUrl(baseUrl, p)
               path == PathUnder(baseUrl, once)
           IN  /\ StartsWith(p, "http") => once = p
               /\ GetImageUrl(baseUrl, once) = once
               /\ CardImageSrc(baseUrl, filteredResults[i]) = once
               /\ ~StartsWith(p, "http")
                    => /\ once = baseUrl \o "/" \o path
                       /\ StartsWith(path, "static/")
                       /\ \/ path = p
                          \/ path = "static/" \o p /\ ~StartsWith(p, "static/")

\* The grid shows, under a moved slider, a product with a relative path next
\* to one with an absolute URL.
C14_Witness ==
  /\ ResultsSectionShown
  /\ similarityThreshold = 75
  /\ Len(filteredResults) = 2
  /\ filteredResults[1].image_path = "images/shoe.jpg"
  /\ CardImageSrc("http://localhost:8000", filteredResults[1])
       = "http://localhost:8000/static/images/shoe.jpg"
  /\ filteredResults[2].image_path = "https://cdn.example.com/shoe.jpg"

(***************************************************************************)
(* The count of the completion toast                                       *)
(***************************************************************************)
\* C16: when a search completes, the count its toast announces is the number
\* of products the results grid then displays, whatever the filters are.
C16_AnnouncedCountIsDisplayed ==
  [][ SearchResolves
        => /\ ResultsSectionShown'
           /\ FilteredCount(searchResults', Head(pending))
                = Len(filteredResults') ]_vars

\* A search has completed under a threshold and a category chosen after an
\* earlier search, which hide some of its products and show the others.
C16_Witness ==
  /\ toast = "Search completed!"
  /\ ResultsSectionShown
  /\ similarityThreshold > 0
  /\ selectedCategories # <<>>
  /\ Len(filteredResults) > 0
  /\ Len(filteredResults) < Len(searchResults)

(***************************************************************************)
(* The mock search                                                         *)
(***************************************************************************)
\* Position of a mock result in the catalog.
CatalogIndex(product) ==
  CHOOSE i \in 1..Len(mockProducts) : mockProducts[i].id = product.id

\* C17: the list generateMockSearchResults returns holds every product of
\* mockProducts exactly once, with its catalog fields, each similarity in
\* [0.6, 1.0], in descending order of similarity, and products of equal
\* similarity in catalog order.
C17_MockResultsSortedPermutation ==
  hasSearched
    => /\ Len(searchResults) = Len(mockProducts)
       /\ \A i \in 1..Len(mockProducts) :
            Cardinality({ j \in 1..Len(searchResults) :
                            /\ searchResults[j].id = mockProducts[i].id
                            /\ searchResults[j].name = mockProducts[i].name
                            /\ searchResults[j].category = mockProducts[i].category })
              = 1
       /\ \A j \in 1..Len(searchResults) :
            /\ searchResults[j].similarity >= 60
            /\ searchResults[j].similarity =< 100
       /\ \A j, k \in 1..Len(searchResults) :
            j < k
              => \/ searchResults[j].similarity > searchResults[k].similarity
                 \/ /\ searchResults[j].similarity = searchResults[k].similarity
                    /\ CatalogIndex(searchResults[j]) < CatalogIndex(searchResults[k])

\* A returned list that is not in catalog order and holds a tie: the last
\* product of the catalog comes first, and products 1 and 2 are tied.
C17_Witness ==
  /\ hasSearched
  /\ Len(searchResults) = Len(mockProducts)
  /\ searchResults[1].id = "8"
  /\ \E j \in 1..(Len(searchResults) - 1) :
       /\ searchResults[j].id = "1"
       /\ searchResults[j + 1].id = "2"
       /\ searchResults[j].similarity = searchResults[j + 1].similarity

(***************************************************************************)
(* Results and the selected image                                          *)
(***************************************************************************)
\* The call was made for the image that is selected after the step.
ForSelectedImage(call) ==
  call.request = SearchRequest(uploadedFile', imageUrl', TopK, InitialThreshold)

\* Selecting an image takes the results of the earlier image off the page.
SelectionHidesResults ==
  [][ ImageSelected => ~ResultsSectionShown' ]_vars

\* C18: whenever results are displayed, searchResults is the response of a
\* search issued for the selected image: the response that a completing
\* search puts on display answers a request for the image selected at that
\* moment, and selecting an image hides the results there were.
C18_ResultsAreForSelectedImage ==
  /\ [][ SearchResolves => ForSelectedImage(Head(pending)) ]_vars
  /\ SelectionHidesResults

(***************************************************************************)
(* One search at a time                                                    *)
(***************************************************************************)
\* C19: at most one call of searchProducts is pending; isLoading holds
\* exactly while one is, and while it holds handleSearch cannot run (its
\* button is disabled), so no call is added before the pending one settles.
C19_AtMostOneSearchInFlight ==
  /\ Len(pending) =< 1
  /\ isLoading <=> pending # <<>>
  /\ isLoading => ~ENABLED HandleSearch

\* A second search for the image is in flight, after the first has completed.
C19_Witness ==
  /\ isLoading
  /\ Len(pending) = 1
  /\ hasSearched
  /\ searchResults # <<>>
  /\ SearchButtonShown

(***************************************************************************)
(* Selecting a new image                                                   *)
(***************************************************************************)
\* C20: an image selected while no search is in flight sets hasSearched to
\* false and error to null and leaves searchResults, the threshold and the
\* selected categories as they were, so the results section is not shown;
\* and hasSearched becomes true again only by a search completing with its
\* response, which is then a search started after the selection.
C20_NewImageHidesResults ==
  /\ [][ (ImageSelected /\ ~isLoading)
           => /\ ~hasSearched'
              /\ error' = Null
              /\ UNCHANGED <<searchResults, similarityThreshold, selectedCategories>>
              /\ pending' = <<>>
              /\ ~ResultsSectionShown' ]_vars
  /\ [][ (~hasSearched /\ hasSearched')
           => /\ SearchResolves
              /\ searchResults' \in Responses(Head(pending).request) ]_vars

\* A URL has been selected after a search for a file completed: the file's
\* results and the filters are kept, and nothing of them is displayed.
C20_Witness ==
  /\ ~hasSearched
  /\ ~isLoading
  /\ pending = <<>>
  /\ error = Null
  /\ imageUrl = GoodUrl
  /\ searchResults # <<>>
  /\ similarityThreshold > 0
  /\ selectedCategories # <<>>
  /\ ~ResultsSectionShown

(***************************************************************************)
(* The filter state                                                        *)
(***************************************************************************)
\* C21: selectedCategories never holds 'All' and never holds a category
\* twice; toggling 'All' empties it; and toggling a category other than
\* 'All' twice gives back the same set of categories.
C21_CategorySelectionIsASet ==
  /\ ~Includes(selectedCategories, "All")
  /\ \A i, j \in 1..Len(selectedCategories) :
       selectedCategories[i] = selectedCategories[j] => i = j
  /\ ToggleCategory(selectedCategories, "All") = <<>>
  /\ \A category \in CategoryNames \ {"All"} :
       Elements(ToggleCategory(ToggleCategory(selectedCategories, category),
                               category))
         = Elements(selectedCategories)
  /\ (ResultsSectionShown /\ selectedCategories # <<>>)
       => ENABLED (HandleCategoryToggle("All") /\ selectedCategories' = <<>>)

\* Two categories are selected, in the order a double toggle of the first
\* leaves them in.
C21_Witness ==
  /\ ResultsSectionShown
  /\ selectedCategories = <<"Bags", "Shoes">>
  /\ ToggleCategory(ToggleCategory(selectedCategories, "Bags"), "Bags")
       = <<"Shoes", "Bags">>

\* The page shows the filter state it starts with.
InitialFilterState == similarityThreshold = 0 /\ selectedCategories = <<>>

\* C22: handleClearFilters puts the filters back to their initial state
\* (threshold 0, no category) whatever they were, changes nothing else
\* (results, hasSearched, error, isLoading, the selected image), and can be
\* applied again with the same outcome; similarityThreshold is 0 or a slider
\* value in 50..100 in every reachable state.
C22_ClearRestoresInitialFilters ==
  /\ [][ HandleClearFilters
           => /\ InitialFilterState'
              /\ UNCHANGED <<searchResults, hasSearched, error, isLoading,
                             uploadedImage, uploadedFile, imageUrl,
                             uploaderVars, pending>> ]_vars
  /\ []((ResultsSectionShown /\ InitialFilterState)
          => ENABLED (HandleClearFilters /\ UNCHANGED vars))
  /\ [](similarityThreshold = 0 \/ similarityThreshold \in 50..100)

\* The filters are in their initial state over displayed results that a
\* moved slider would cut down: the state handleClearFilters leaves.
C22_Witness ==
  /\ ResultsSectionShown
  /\ InitialFilterState
  /\ Len(searchResults) = 2
  /\ Len(FilterResults(searchResults, 75, <<"Shoes">>)) = 1

(***************************************************************************)
(* ApiClient.searchSimilarProducts                                         *)
(***************************************************************************)
\* The body of the response parses as JSON.
IsJson(body) == body.type # "text"

\* The JSON body has a detail field.
HasDetail(body) == body.type = "object" /\ "detail" \in DOMAIN body.value

\* C23: for every answer a pending call may get, searchSimilarProducts
\* resolves only for an ok response, with the parsed body; and for a response
\* that is not ok it rejects with the body's detail when the body is JSON
\* with a non-empty detail, with 'HTTP <status>: <statusText>' when the JSON
\* body has no detail, and with 'Search failed' when the body is not JSON.
C23_ErrorMessages ==
  \A i \in 1..Len(pending) :
    \A outcome \in HttpOutcomes(pending[i].request) :
      LET settled == SearchSimilarProducts(outcome)
          body    == outcome.body
      IN  /\ settled.resolved
               => /\ outcome.responds
                  /\ outcome.ok
                  /\ settled.results = body.value.results
          /\ (outcome.responds /\ ~outcome.ok)
               => /\ ~settled.resolved
                  /\ (HasDetail(body) /\ body.value.detail # "")
                       => settled.message = body.value.detail
                  /\ (IsJson(body) /\ ~HasDetail(body))
                       => settled.message
                            = "HTTP " \o outcome.status \o ": " \o outcome.statusText
                  /\ ~IsJson(body) => settled.message = "Search failed"

==========================================================================
